---- MODULE Spec2Model ----
(***************************************************************************)
(* A model of the rusty_api server bootstrap: the fluent Api builder       *)
(* (src/src/api.rs), the TLS credential loader (src/src/core/config.rs)    *)
(* and the lifecycle of Api::start: credential load, rate-limit policy     *)
(* construction, listener bind, per-worker application assembly and        *)
(* request dispatch through the middleware stack.                          *)
(*                                                                         *)
(* Time is counted in ticks of 1/3 second.                                 *)
(***************************************************************************)
EXTENDS Integers, Sequences, FiniteSets, TLC

VARIABLES
    api,          \* the Api value (struct Api, api.rs:9-18)
    calls,        \* history: the setter calls made on the builder, in order
    pc,           \* position of Api::start
    log,          \* the lines printed to standard output, in order
    tls,          \* the ServerConfig returned by load_rustls_config, or None
    governor,     \* the GovernorConfig built in start, or None
    buckets,      \* the limiter's keyed state: key -> token level (in ticks)
    listeners,    \* number of TLS listeners bound
    bindAttempts, \* number of calls of bind_rustls_0_23
    apps,         \* worker -> the App its factory call assembled, or None
    corsCalls,    \* worker -> number of invocations of the CORS factory
    routeCalls,   \* worker -> number of invocations of the route registrar
    lastReq,      \* the last request handled: worker, client, path taken
    nreq,         \* requests handled so far
    nticks,       \* ticks elapsed while serving
    reqNow,       \* client -> requests made at the current instant
    admittedNow,  \* client -> requests admitted at the current instant
    fullNow,      \* client -> the bucket was full when this instant began
    drain,        \* client -> ticks waited since a full burst drained it
    servedBy,     \* client -> the workers that admitted it at this instant
    loadIn,       \* input of a stand-alone load_rustls_config call
    loadOut       \* its result

vars == <<api, calls, pc, log, tls, governor, buckets, listeners, bindAttempts,
          apps, corsCalls, routeCalls, lastReq, nreq, nticks, reqNow,
          admittedNow, fullNow, drain, servedBy, loadIn, loadOut>>

builderVars == <<api, calls>>
startVars   == <<pc, log, tls, governor, listeners, bindAttempts>>
workerVars  == <<apps, corsCalls, routeCalls>>
trafficVars == <<buckets, lastReq, nreq, nticks, reqNow, admittedNow, fullNow, drain,
                 servedBy>>
loadVars    == <<loadIn, loadOut>>

----------------------------------------------------------------------------
(* Bounds *)

MaxCalls == 2          \* setter calls made on a builder
MaxSetup == 1          \* setter calls made before the server is started
MaxRequests == 4       \* requests handled in one run of the server
MaxTicks == 2          \* ticks elapsed in one run of the server
MaxBurstRequests == 22 \* requests handled in one run of the burst scenario
MaxBurstTicks == 10    \* ticks elapsed in one run of the burst scenario
MaxBlocks == 3         \* PEM blocks in a certificate file

Workers == {"w1", "w2"}
Clients == {"ip1", "ip2"}

\* Option<T>: None is the empty tuple and Some(x) the one-element tuple.
None == <<>>
Some(x) == <<x>>

----------------------------------------------------------------------------
(* The environment: what the files named by the paths hold.  A certificate  *)
(* file is unreadable, or a sequence of PEM blocks; a block is a            *)
(* certificate ("c1", "c2") or malformed ("bad").  A key file is            *)
(* unreadable, holds no parseable key ("garbage"), or holds one key; key    *)
(* "k1" belongs to certificate "c1" and "k2" to "c2".                       *)

Blocks == {"c1", "c2", "bad"}
Unreadable == "Unreadable"
KeyContents == {Unreadable, "garbage", "k1", "k2"}

NoFile == [readable |-> FALSE, blocks |-> <<>>]
File(blocks) == [readable |-> TRUE, blocks |-> blocks]

CertFileAt(path) ==
    CASE path = "certs/cert.pem" -> File(<<"c1", "c2">>)
      [] path = "partial.pem"    -> File(<<"c1", "bad", "c2">>)
      [] path = "empty.pem"      -> File(<<>>)
      [] OTHER                   -> NoFile

KeyFileAt(path) ==
    CASE path = "certs/key.pem" -> "k1"
      [] path = "other.key"     -> "k2"
      [] path = "garbage.key"   -> "garbage"
      [] OTHER                  -> Unreadable

KeyMatches(key, cert) ==
    \/ key = "k1" /\ cert = "c1"
    \/ key = "k2" /\ cert = "c2"

----------------------------------------------------------------------------
(* core/config.rs: load_rustls_config *)

\* CertificateDer::pem_file_iter(..).map(|res| res.flatten().collect()):
\* the iterator yields one Result per block; flatten() keeps the Ok ones and
\* drops the Err ones.
Flatten(blocks) == SelectSeq(blocks, LAMBDA b : b # "bad")

load_rustls_config(certFile, keyFile) ==
    IF ~certFile.readable
    THEN [config |-> None, diag |-> "Error: Failed to parse PEM file"]
    ELSE LET cert_chain == Flatten(certFile.blocks) IN
         IF cert_chain = <<>>
         THEN [config |-> None, diag |-> "Error: No certificates found"]
         ELSE IF keyFile \in {Unreadable, "garbage"}
         THEN [config |-> None, diag |-> "Error: No private key found"]
         ELSE IF ~KeyMatches(keyFile, cert_chain[1])
         THEN [config |-> None, diag |-> "Error: Failed to build TLS configuration"]
         ELSE [config |-> Some([cert_chain |-> cert_chain, key_der |-> keyFile]),
               diag |-> ""]

----------------------------------------------------------------------------
(* api.rs: the builder *)

Api_new_port_8080 ==
    [cert_path     |-> "certs/cert.pem",
     key_path      |-> "certs/key.pem",
     db_path       |-> "users.db",
     addr          |-> "127.0.0.1",
     port          |-> 8080,
     rate_limit    |-> <<3, 20>>,
     custom_routes |-> None,
     custom_cors   |-> "default"]

Api_new ==
    [cert_path     |-> "certs/cert.pem",
     key_path      |-> "certs/key.pem",
     db_path       |-> "users.db",
     addr          |-> "127.0.0.1",
     port          |-> 8443,
     rate_limit    |-> <<3, 20>>,
     custom_routes |-> None,
     custom_cors   |-> "default"]

certsSameFile(self, cert, key) == [self EXCEPT !.cert_path = cert, !.key_path = cert]

certs(self, cert, key) == [self EXCEPT !.cert_path = cert, !.key_path = key]

auth_db(self, path) == [self EXCEPT !.db_path = path]

rate_limit(self, per_second, burst_size) ==
    [self EXCEPT !.rate_limit = <<per_second, burst_size>>]

bind(self, addr, port) == [self EXCEPT !.addr = addr, !.port = port]

configure_routes(self, routes) == [self EXCEPT !.custom_routes = routes]

configure_cors(self, cors_config) == [self EXCEPT !.custom_cors = cors_config]

get_cert_path(self) == self.cert_path
get_key_path(self) == self.key_path
get_db_path(self) == self.db_path
get_addr(self) == self.addr
get_port(self) == self.port
get_rate_limit(self) == self.rate_limit
get_bind_addr(self) == self.addr \o ":" \o ToString(self.port)
get_rate_limit_per_second(self) == self.rate_limit[1]
get_rate_limit_burst_size(self) == self.rate_limit[2]

\* The arguments the setters are called with.
CertArgs == {<<"a", "b">>, <<"partial.pem", "certs/key.pem">>,
             <<"certs/cert.pem", "other.key">>, <<"empty.pem", "certs/key.pem">>}
DbArgs   == {"path/to/users.db", "x.db"}
RateArgs == {<<0, 2>>, <<1, 0>>, <<1, 2>>}
BindArgs == {<<"0.0.0.0", 443>>, <<"127.0.0.1", 8080>>}
RouteArgs == {Some("routes")}
CorsArgs == {"custom"}

Building(cap) == pc = "builder" /\ Len(calls) < cap

Certs(cap) ==
    /\ Building(cap)
    /\ \E a \in CertArgs :
         /\ api' = certs(api, a[1], a[2])
         /\ calls' = Append(calls, <<"certs", a>>)
    /\ UNCHANGED <<startVars, workerVars, trafficVars, loadVars>>

AuthDb(cap) ==
    /\ Building(cap)
    /\ \E p \in DbArgs :
         /\ api' = auth_db(api, p)
         /\ calls' = Append(calls, <<"auth_db", <<p>>>>)
    /\ UNCHANGED <<startVars, workerVars, trafficVars, loadVars>>

RateLimit(cap) ==
    /\ Building(cap)
    /\ \E a \in RateArgs :
         /\ api' = rate_limit(api, a[1], a[2])
         /\ calls' = Append(calls, <<"rate_limit", a>>)
    /\ UNCHANGED <<startVars, workerVars, trafficVars, loadVars>>

Bind(cap) ==
    /\ Building(cap)
    /\ \E a \in BindArgs :
         /\ api' = bind(api, a[1], a[2])
         /\ calls' = Append(calls, <<"bind", a>>)
    /\ UNCHANGED <<startVars, workerVars, trafficVars, loadVars>>

ConfigureRoutes(cap) ==
    /\ Building(cap)
    /\ \E r \in RouteArgs :
         /\ api' = configure_routes(api, r)
         /\ calls' = Append(calls, <<"configure_routes", <<r>>>>)
    /\ UNCHANGED <<startVars, workerVars, trafficVars, loadVars>>

ConfigureCors(cap) ==
    /\ Building(cap)
    /\ \E f \in CorsArgs :
         /\ api' = configure_cors(api, f)
         /\ calls' = Append(calls, <<"configure_cors", <<f>>>>)
    /\ UNCHANGED <<startVars, workerVars, trafficVars, loadVars>>

----------------------------------------------------------------------------
(* api.rs: Api::start *)

\* start(self): the runtime is created and the async block entered.
Start ==
    /\ pc = "builder"
    /\ pc' = "starting"
    /\ log' = Append(log, "INFO: Starting API server...")
    /\ UNCHANGED <<builderVars, tls, governor, listeners, bindAttempts,
                   workerVars, trafficVars, loadVars>>

LoadTls(self) == load_rustls_config(CertFileAt(self.cert_path), KeyFileAt(self.key_path))

StartLoadTlsUnchecked ==
    /\ pc = "starting"
    /\ pc' = "tls_loaded"
    /\ tls' = LoadTls(api).config
    /\ UNCHANGED <<builderVars, log, governor, listeners, bindAttempts,
                   workerVars, trafficVars, loadVars>>

\* load_rustls_config(&self.cert_path, &self.key_path).expect("TLS failed")
StartLoadTls ==
    /\ pc = "starting"
    /\ LET r == LoadTls(api) IN
         IF r.config = None
         THEN /\ pc' = "panicked"
              /\ log' = log \o <<r.diag, "panic: TLS failed">>
              /\ tls' = tls
         ELSE /\ pc' = "tls_loaded"
              /\ tls' = r.config
              /\ log' = log
    /\ UNCHANGED <<builderVars, governor, listeners, bindAttempts,
                   workerVars, trafficVars, loadVars>>

\* GovernorConfigBuilder: per_second(n) sets the replenish period to n
\* seconds, burst_size(b) the capacity; finish() is None when either is zero.
GovernorFinish(per_second, burst_size) ==
    IF per_second = 0 \/ burst_size = 0
    THEN None
    ELSE Some([period |-> per_second * 3, burst |-> burst_size])

\* GovernorConfigBuilder::default()...finish().unwrap()
StartGovernor ==
    /\ pc = "tls_loaded"
    /\ LET g == GovernorFinish(api.rate_limit[1], api.rate_limit[2]) IN
         IF g = None
         THEN /\ pc' = "panicked"
              /\ log' = Append(log, "panic: unwrap on None")
              /\ governor' = governor
         ELSE /\ pc' = "governor_built"
              /\ governor' = g
              /\ log' = log
    /\ UNCHANGED <<builderVars, tls, listeners, bindAttempts,
                   workerVars, trafficVars, loadVars>>

StartBindIgnoringError ==
    /\ pc = "governor_built"
    /\ bindAttempts' = bindAttempts + 1
    /\ \E bound \in BOOLEAN :
         /\ pc' = "bound"
         /\ listeners' = IF bound THEN listeners + 1 ELSE listeners
         /\ log' = Append(log, "INFO: Server binding to " \o get_bind_addr(api))
    /\ UNCHANGED <<builderVars, tls, governor, workerVars, trafficVars, loadVars>>

\* HttpServer::new(factory).bind_rustls_0_23((addr, port), tls_config)?
\* The factory is stored, not called; a bind error leaves the async block
\* through `?` and start prints it.
StartBind ==
    /\ pc = "governor_built"
    /\ bindAttempts' = bindAttempts + 1
    /\ \E bound \in BOOLEAN :
         IF bound
         THEN /\ pc' = "bound"
              /\ listeners' = listeners + 1
              /\ log' = Append(log, "INFO: Server binding to " \o get_bind_addr(api))
         ELSE /\ pc' = "stopped"
              /\ listeners' = listeners
              /\ log' = log \o <<"INFO: Server binding to " \o get_bind_addr(api),
                                 "ERROR: Failed to start API server">>
    /\ UNCHANGED <<builderVars, tls, governor, workerVars, trafficVars, loadVars>>

\* .run().await: the server starts its workers.
StartRun ==
    /\ pc = "bound"
    /\ pc' = "serving"
    /\ UNCHANGED <<builderVars, log, tls, governor, listeners, bindAttempts,
                   workerVars, trafficVars, loadVars>>

----------------------------------------------------------------------------
(* api.rs: the application factory given to HttpServer::new *)

\* App::wrap: the middleware registered last is the outermost one.
WrapInnermost(app, mw) == [app EXCEPT !.stack = @ \o <<mw>>]

Wrap(app, mw) == [app EXCEPT !.stack = <<mw>> \o @]

\* App::configure(|cfg| custom_routes(cfg))
Configure(app, routes) == [app EXCEPT !.routes = routes]

NewApp == [stack |-> <<>>, routes |-> None, cors |-> ""]

\* The closure body: cors = (cors_config)(); App::new().wrap(cors)
\* .wrap(Governor::new(&governor_config)); then the custom routes, if any.
AppFactory(self) ==
    LET cors == self.custom_cors
        app  == Wrap(Wrap([NewApp EXCEPT !.cors = cors], "cors"), "governor")
    IN  IF self.custom_routes # None
        THEN Configure(app, self.custom_routes)
        ELSE app

\* A worker starts and calls the factory once to build its application.
WorkerInit(w) ==
    /\ pc = "serving"
    /\ apps[w] = None
    /\ apps' = [apps EXCEPT ![w] = Some(AppFactory(api))]
    /\ corsCalls' = [corsCalls EXCEPT ![w] = @ + 1]
    /\ routeCalls' = [routeCalls EXCEPT ![w] =
                        IF api.custom_routes # None THEN @ + 1 ELSE @]
    /\ UNCHANGED <<builderVars, startVars, trafficVars, loadVars>>

----------------------------------------------------------------------------
(* Request handling by a worker's application *)

Min(a, b) == IF a < b THEN a ELSE b

Range(s) == {s[i] : i \in DOMAIN s}

\* Governor::new(&governor_config): every worker's middleware holds the one
\* limiter of governor_config, whose state is keyed by the client alone.
StateKeyPerWorker(w, c) == <<w, c>>

StateKey(w, c) == <<c>>

Capacity == governor[1].burst * governor[1].period

\* A key the limiter has not seen yet has a full bucket.
Level(key) == IF key \in DOMAIN buckets THEN buckets[key] ELSE Capacity

\* The request goes through the middleware from the outermost inwards and
\* reaches the routes only if every one lets it pass.
RECURSIVE Dispatch(_, _, _)
Dispatch(stack, admit, corsOk) ==
    IF stack = <<>>
    THEN <<"routes">>
    ELSE LET mw   == Head(stack)
             pass == IF mw = "governor" THEN admit ELSE corsOk
         IN  IF pass
             THEN <<mw>> \o Dispatch(Tail(stack), admit, corsOk)
             ELSE <<mw>>

PutLevel(key, level) ==
    [k \in DOMAIN buckets \cup {key} |-> IF k = key THEN level ELSE buckets[k]]

\* The request is served by the application built when the worker started:
\* the factory closure is not part of the request path.
ServiceCallRebuildingCors(w) ==
    /\ corsCalls' = [corsCalls EXCEPT ![w] = @ + 1]
    /\ UNCHANGED <<apps, routeCalls>>

ServiceCall(w) == UNCHANGED workerVars

HandleRequest(w, c, corsOk, cap) ==
    /\ pc = "serving"
    /\ apps[w] # None
    /\ nreq < cap
    /\ LET app     == apps[w][1]
           key     == StateKey(w, c)
           admit   == Level(key) >= governor[1].period
           trace   == Dispatch(app.stack, admit, corsOk)
           checked == "governor" \in Range(trace)
           taken   == checked /\ admit
       IN  /\ buckets' = IF taken THEN PutLevel(key, Level(key) - governor[1].period)
                         ELSE IF checked THEN PutLevel(key, Level(key))
                         ELSE buckets
           /\ lastReq' = Some([worker |-> w, client |-> c, trace |-> trace,
                               checked |-> checked, admitted |-> taken])
           /\ admittedNow' = [admittedNow EXCEPT ![c] = IF taken THEN @ + 1 ELSE @]
           /\ servedBy' = [servedBy EXCEPT ![c] = IF taken THEN @ \cup {w} ELSE @]
    /\ ServiceCall(w)
    /\ nreq' = nreq + 1
    /\ reqNow' = [reqNow EXCEPT ![c] = @ + 1]
    /\ UNCHANGED <<builderVars, startVars, nticks, fullNow, drain, loadVars>>

\* 1/3 second passes: every bucket gains one tick's worth, up to capacity.
Tick(cap) ==
    /\ pc = "serving"
    /\ nticks < cap
    /\ nticks' = nticks + 1
    /\ buckets' = [k \in DOMAIN buckets |-> Min(buckets[k] + 1, Capacity)]
    /\ reqNow' = [c \in Clients |-> 0]
    /\ admittedNow' = [c \in Clients |-> 0]
    /\ servedBy' = [c \in Clients |-> {}]
    /\ fullNow' = [c \in Clients |->
                     \A k \in DOMAIN buckets : k[Len(k)] = c => buckets'[k] = Capacity]
    /\ drain' = [c \in Clients |->
                   IF fullNow[c] /\ reqNow[c] > governor[1].burst
                        /\ admittedNow[c] = governor[1].burst
                   THEN 1
                   ELSE IF drain[c] >= 1 /\ reqNow[c] = 0 THEN drain[c] + 1
                   ELSE 0]
    /\ lastReq' = None
    /\ UNCHANGED <<builderVars, startVars, workerVars, nreq, loadVars>>

----------------------------------------------------------------------------
(* A stand-alone call of load_rustls_config on any small pair of files *)

RECURSIVE SeqsUpTo(_, _)
SeqsUpTo(S, n) ==
    IF n = 0 THEN {<<>>}
    ELSE LET shorter == SeqsUpTo(S, n - 1)
         IN  shorter \cup {Append(s, x) : s \in shorter, x \in S}

CertFiles == {NoFile} \cup {File(b) : b \in SeqsUpTo(Blocks, MaxBlocks)}

LoadCall ==
    /\ loadOut = None
    /\ loadOut' = Some(load_rustls_config(loadIn.cert, loadIn.key))
    /\ UNCHANGED <<builderVars, startVars, workerVars, trafficVars, loadIn>>

----------------------------------------------------------------------------
(* Specifications *)

InitServer ==
    /\ api = Api_new
    /\ calls = <<>>
    /\ pc = "builder"
    /\ log = <<>>
    /\ tls = None
    /\ governor = None
    /\ buckets = <<>>
    /\ listeners = 0
    /\ bindAttempts = 0
    /\ apps = [w \in Workers |-> None]
    /\ corsCalls = [w \in Workers |-> 0]
    /\ routeCalls = [w \in Workers |-> 0]
    /\ lastReq = None
    /\ nreq = 0
    /\ nticks = 0
    /\ reqNow = [c \in Clients |-> 0]
    /\ admittedNow = [c \in Clients |-> 0]
    /\ fullNow = [c \in Clients |-> TRUE]
    /\ drain = [c \in Clients |-> 0]
    /\ servedBy = [c \in Clients |-> {}]

Init ==
    /\ InitServer
    /\ loadIn = [cert |-> NoFile, key |-> Unreadable]
    /\ loadOut = None

StartSteps == Start \/ StartLoadTls \/ StartGovernor \/ StartBind \/ StartRun

\* The server's lifecycle: configuration, start, workers, traffic.
Next ==
    \/ Certs(MaxSetup) \/ RateLimit(MaxSetup)
    \/ ConfigureRoutes(MaxSetup) \/ ConfigureCors(MaxSetup)
    \/ StartSteps
    \/ \E w \in Workers : WorkerInit(w)
    \/ \E w \in Workers, c \in Clients, corsOk \in BOOLEAN :
         HandleRequest(w, c, corsOk, MaxRequests)
    \/ Tick(MaxTicks)

Spec == Init /\ [][Next]_vars

\* The builder alone: every setter, no start.
NextBuilder ==
    \/ Certs(MaxCalls) \/ AuthDb(MaxCalls) \/ RateLimit(MaxCalls)
    \/ Bind(MaxCalls) \/ ConfigureRoutes(MaxCalls) \/ ConfigureCors(MaxCalls)

SpecBuilder == Init /\ [][NextBuilder]_vars

\* The default configuration started and one client sending a burst.
NextBurst ==
    \/ StartSteps
    \/ \E w \in Workers : WorkerInit(w)
    \/ \E w \in Workers : HandleRequest(w, "ip1", TRUE, MaxBurstRequests)
    \/ Tick(MaxBurstTicks)

SpecBurst == Init /\ [][NextBurst]_vars

\* load_rustls_config as a function of the two files.
InitLoad ==
    /\ InitServer
    /\ loadIn \in [cert : CertFiles, key : KeyContents]
    /\ loadOut = None

SpecLoad == InitLoad /\ [][LoadCall]_vars

----------------------------------------------------------------------------
(* Properties *)

LoadFails == LoadTls(api).config = None

GovernorFails == GovernorFinish(api.rate_limit[1], api.rate_limit[2]) = None

NoWorkerSpawned ==
    \A w \in Workers : apps[w] = None /\ corsCalls[w] = 0 /\ routeCalls[w] = 0

\* C1: when load_rustls_config fails for the configured paths, no listener
\* is ever bound (no bind is even attempted) and no worker is ever spawned:
\* neither the CORS factory nor the route registrar is invoked.
C1_TlsFailureBindsAndSpawnsNothing ==
    LoadFails => listeners = 0 /\ bindAttempts = 0 /\ NoWorkerSpawned

C1_Witness ==
    /\ pc = "panicked"
    /\ api.cert_path = "certs/cert.pem" /\ api.key_path = "other.key"
    /\ LoadFails

\* C2: every startup configuration error (credential load failure, a zero
\* per_second or burst_size) ends start in a normal return with a logged
\* diagnostic (the Stopped state), never in a panic.
C2_ConfigErrorReturnsNormally ==
    (LoadFails \/ GovernorFails) =>
        pc \in {"builder", "starting", "tls_loaded", "stopped"}

\* C3 as stated: a request passes the CORS policy first, then admission
\* control, then the routes; a request rejected by admission control never
\* reaches the routes.
C3_CorsOutermost ==
    lastReq # None =>
        LET t == lastReq[1].trace IN
        /\ t[1] = "cors"
        /\ Len(t) >= 2 => t[2] = "governor"
        /\ Len(t) >= 3 => t[3] = "routes"
        /\ (lastReq[1].checked /\ ~lastReq[1].admitted) => "routes" \notin Range(t)

\* C3 amended: a request passes admission control first (outermost), then
\* the CORS policy, then the routes (innermost); a request rejected by
\* admission control reaches neither the CORS policy nor the routes.
C3_AdmissionOutermost ==
    lastReq # None =>
        LET t == lastReq[1].trace IN
        /\ t[1] = "governor"
        /\ Len(t) >= 2 => t[2] = "cors"
        /\ Len(t) >= 3 => t[3] = "routes"
        /\ Len(t) <= 3
        /\ lastReq[1].checked
        /\ ~lastReq[1].admitted => t = <<"governor">>

C3_Witness ==
    /\ lastReq # None
    /\ lastReq[1].trace = <<"governor", "cors", "routes">>
    /\ apps[lastReq[1].worker][1].routes # None

\* C4: with the default rate limit (3, 20) and a full bucket, exactly 20
\* requests at one instant are admitted and the 21st is rejected; after a
\* wait of 1/3 second exactly one more request is admitted.
C4_BurstThenOneAfterThirdOfSecond ==
    (governor # None /\ api.rate_limit = <<3, 20>>) =>
        \A c \in Clients :
            /\ fullNow[c] => admittedNow[c] = Min(reqNow[c], 20)
            /\ (drain[c] = 1 /\ reqNow[c] >= 1) => admittedNow[c] = 1

LastArgs(name) ==
    LET idx == {i \in DOMAIN calls : calls[i][1] = name}
    IN  IF idx = {} THEN None
        ELSE Some(calls[CHOOSE i \in idx : \A j \in idx : j <= i][2])

Expected(name, k, default) ==
    IF LastArgs(name) = None THEN default ELSE LastArgs(name)[1][k]

\* C6: after any sequence of setter calls each getter returns the argument
\* of the most recent call of the setter of its field, or the default when
\* that setter was never called, whatever other setters were called before
\* or after.
C6_GettersReturnLastSet ==
    /\ get_cert_path(api) = Expected("certs", 1, "certs/cert.pem")
    /\ get_key_path(api) = Expected("certs", 2, "certs/key.pem")
    /\ get_db_path(api) = Expected("auth_db", 1, "users.db")
    /\ get_addr(api) = Expected("bind", 1, "127.0.0.1")
    /\ get_port(api) = Expected("bind", 2, 8443)
    /\ get_bind_addr(api) =
         Expected("bind", 1, "127.0.0.1") \o ":" \o ToString(Expected("bind", 2, 8443))
    /\ get_rate_limit(api) =
         <<Expected("rate_limit", 1, 3), Expected("rate_limit", 2, 20)>>
    /\ get_rate_limit_per_second(api) = Expected("rate_limit", 1, 3)
    /\ get_rate_limit_burst_size(api) = Expected("rate_limit", 2, 20)
    /\ api.custom_routes = Expected("configure_routes", 1, None)
    /\ api.custom_cors = Expected("configure_cors", 1, "default")

C6_Witness ==
    /\ Len(calls) = 2
    /\ calls[1] = <<"certs", <<"a", "b">>>>
    /\ calls[2][1] = "bind"
    /\ get_cert_path(api) = "a" /\ get_key_path(api) = "b"

\* C7: Api::new() has bind address "127.0.0.1:8443", rate limit (3, 20),
\* certificate path "certs/cert.pem", key path "certs/key.pem", database
\* path "users.db", no route registrar and the default CORS factory.
C7_Defaults ==
    calls = <<>> =>
        /\ get_bind_addr(api) = "127.0.0.1:8443"
        /\ get_rate_limit(api) = <<3, 20>>
        /\ get_cert_path(api) = "certs/cert.pem"
        /\ get_key_path(api) = "certs/key.pem"
        /\ get_db_path(api) = "users.db"
        /\ api.custom_routes = None
        /\ api.custom_cors = "default"

C7_Witness ==
    /\ calls = <<>>
    /\ pc = "builder"
    /\ get_addr(api) = "127.0.0.1" /\ get_port(api) = 8443

\* C8: load_rustls_config returns either an identity whose chain is every
\* block of the certificate file in file order, or nothing; it returns
\* nothing for an unreadable file, a file without blocks and a file with a
\* malformed block.
C8_NoPartialIdentity ==
    loadOut # None =>
        LET f == loadIn.cert
            r == loadOut[1].config
        IN  /\ r # None =>
                 f.readable /\ r[1].cert_chain = f.blocks /\ Len(f.blocks) >= 1
            /\ (~f.readable \/ f.blocks = <<>> \/ "bad" \in Range(f.blocks)) => r = None

\* C9: when the bind fails start logs the error and returns; the bind is
\* attempted once and no worker was spawned; a worker exists only after a
\* successful bind.
C9_BindFailureStops ==
    /\ bindAttempts <= 1
    /\ pc = "stopped" =>
         /\ bindAttempts = 1 /\ listeners = 0
         /\ NoWorkerSpawned
         /\ log[Len(log)] = "ERROR: Failed to start API server"
    /\ ~NoWorkerSpawned => listeners = 1

C9_Witness ==
    /\ pc = "stopped"
    /\ tls # None /\ governor # None
    /\ bindAttempts = 1

\* C10, the part about one instant: the requests of one client admitted at
\* one instant by all workers together never exceed burst_size, and from a
\* full bucket every worker sees the level left by all admissions.
C10_SharedBucket ==
    governor # None =>
        \A c \in Clients :
            /\ admittedNow[c] <= governor[1].burst
            /\ fullNow[c] =>
                 \A w \in Workers :
                     Level(StateKey(w, c)) =
                         Capacity - governor[1].period * admittedNow[c]

\* C10, the part about rejection: a rejected request leaves the bucket of
\* every other client as it was.
C10_RejectionLeavesOthers ==
    (/\ nreq' = nreq + 1
     /\ lastReq' # None
     /\ ~lastReq'[1].admitted) =>
        \A o \in Clients \ {lastReq'[1].client} : \A w \in Workers :
            Level(StateKey(w, o))' = Level(StateKey(w, o))

\* C10: the limiter state is shared by all workers: no admission is lost,
\* the admissions of one client at one instant are bounded by burst_size
\* over all workers, and a rejection changes no other client's bucket.
C10_AdmissionShared == []C10_SharedBucket /\ [][C10_RejectionLeavesOthers]_vars

C10_Witness ==
    /\ lastReq # None
    /\ ~lastReq[1].admitted
    /\ admittedNow[lastReq[1].client] = governor[1].burst
    /\ servedBy[lastReq[1].client] = Workers
    /\ \E o \in Clients \ {lastReq[1].client} : admittedNow[o] = 1

====
